---- MODULE Spec2Model ----
(***************************************************************************)
(* Model of the glare-removal batch pipeline.                              *)
(*                                                                         *)
(*   Orchestrator (scripts/sprite-orchestrator.ts, kept in                 *)
(*   src/unnamed/part_001): discovery of unprocessed image sets, the       *)
(*   sequential loop of main, and the steps of processSet against the      *)
(*   single remote sprite.                                                 *)
(*                                                                         *)
(*   Driver (src/scripts/sprite-process-image.ts): the extraction chain    *)
(*   that recovers the generated image, and its terminal states.           *)
(*                                                                         *)
(*   Lightbox (ImageComparisonRow, kept in src/unnamed/part_004): the      *)
(*   state of the comparison row's lightbox under its event handlers.      *)
(***************************************************************************)
EXTENDS Integers, Sequences, FiniteSets, TLC

\* ---------------------------------------------------------------- bounds

\* Corpus entries (over both categories) that exist at all.
MaxDirs == 2

\* img elements on the page when extraction starts.
MaxImages == 2

\* Longest time the driver process takes from the exec call to the arming of
\* its timer, in ticks of 30 s.
MaxStartup == 2

\* Width of the overlay container in pixels; the pointer is anywhere from one
\* pixel left of it to one pixel right of it.
MaxWidth == 3

\* ------------------------------------------------------------- constants

\* part_001:300  if (buffer.length < 30000)
ORCH_MIN_BYTES == 30000

\* sprite-process-image.ts:288, 323  if (buffer.length > 30000)
DRIVER_MIN_BYTES == 30000

\* sprite-process-image.ts:33  const PROCESS_TIMEOUT = 180000
PROCESS_TIMEOUT == 180000

\* sprite-process-image.ts:164  const responseTimeout = 90000
RESPONSE_TIMEOUT == 90000

\* part_001:276  sprite(`... npx tsx /app/sprite-process-image.ts...`, 240000)
EXEC_TIMEOUT == 240000

\* part_001:149  maxBuffer: 50 * 1024 * 1024
MAX_BUFFER == 52428800

\* sprite-process-image.ts:204, 260, 302  box.width < 150 || box.height < 150
MIN_BOX == 150

\* ------------------------------------------------------ names and strings

\* A file name is a sequence of tokens (stem, then extension); a folder name
\* is a sequence of characters (small integers, ordered as code units).

StartsWith(s, p) == Len(s) >= Len(p) /\ SubSeq(s, 1, Len(p)) = p

EndsWith(s, p) == Len(s) >= Len(p) /\ SubSeq(s, Len(s) - Len(p) + 1, Len(s)) = p

Includes(s, p) == \E i \in 0..(Len(s) - Len(p)) : SubSeq(s, i + 1, i + Len(p)) = p

GlareJpg == <<"glare", ".jpg">>
GlarePng == <<"glare", ".png">>
ClearJpg == <<"clear", ".jpg">>
ResultJpg == <<"gemini_result", ".jpg">>

FileNames == {GlareJpg, GlarePng, ClearJpg, ResultJpg}

Categories == <<"with_reference", "without_reference">>

CategorySet == {Categories[i] : i \in 1..Len(Categories)}

FolderNames == {<<1, 2>>, <<2>>}

DirKeys == CategorySet \X FolderNames

\* Array.prototype.sort() without comparator: code-unit order of the strings.
RECURSIVE LexLess(_, _)
LexLess(a, b) ==
    IF a = <<>> THEN b # <<>>
    ELSE IF b = <<>> THEN FALSE
    ELSE IF Head(a) # Head(b) THEN Head(a) < Head(b)
    ELSE LexLess(Tail(a), Tail(b))

\* The names in descending order.
RECURSIVE SortNamesDescending(_)
SortNamesDescending(S) ==
    IF S = {} THEN <<>>
    ELSE LET m == CHOOSE x \in S : \A y \in S \ {x} : LexLess(y, x)
         IN <<m>> \o SortNamesDescending(S \ {m})

RECURSIVE SortNames(_)
SortNames(S) ==
    IF S = {} THEN <<>>
    ELSE LET m == CHOOSE x \in S : \A y \in S \ {x} : LexLess(x, y)
         IN <<m>> \o SortNames(S \ {m})

\* ---------------------------------------------------------------- corpus

Absent == [kind |-> "absent", files |-> {}]
PlainFile == [kind |-> "file", files |-> {}]
Folder(fs) == [kind |-> "dir", files |-> fs]

\* Contents an entry of a category directory starts with.
InitEntries ==
    {Absent, PlainFile,
     Folder({GlareJpg}),
     Folder({GlareJpg, ClearJpg}),
     Folder({GlarePng}),
     Folder({ClearJpg}),
     Folder({GlareJpg, ResultJpg})}

\* Byte counts a result image can have.
Sizes == {0, 29999, 30000, 30001}

VARIABLES
    catExists,   \* category -> the category directory exists
    corpus,      \* <<category, folder>> -> entry of TEST_SET_PATH
    args,        \* argv of the current run: [dryRun, singleSet]
    mpc,         \* position of main: "idle", "loop", "exited"
    exitCode,    \* process exit code of the last run, -1 while none
    found,       \* result of findUnprocessedSets() in this run
    sets,        \* main's `sets` after the --set filter
    idx,         \* iterations of the for loop started
    cur,         \* the set processSet is working on
    success,     \* main's counter
    failed,      \* main's counter
    ppc,         \* position of processSet: "none", "restore", "prepare",
                 \*   "upload", "uploadRef", "exec"
    corpus0,     \* history: the corpus when the current run started
    ops,         \* history: remote operations issued per job in this run
    done,        \* history: how main counted each job in this run
    writes,      \* history: writeFileSync calls per job folder in this run
    lastBytes,   \* history: size of the buffer processSet wrote for cur, -1 if none
    restoreErr,  \* history: the restore command of cur errored
    threw,       \* history: a controller call threw into processSet
    envFail,     \* history: a restore/prepare/upload/exec failure happened in this run
    prev,        \* history: what the previous run left, seen from this run
    vmInput,     \* the sprite's /tmp/input: files [name, owner], the owner being the
                 \*   job whose image was uploaded under that name
    xvfb,        \* the sprite's display servers: how many Xvfb processes run
    seen         \* history: what the exec of cur handed back, as processSet read
                 \*   it: [cause, decoded, encoded], NoSeen before the exec

ovars == <<catExists, corpus, args, mpc, exitCode, found, sets, idx, cur,
           success, failed, ppc, corpus0, ops, done, writes, lastBytes, restoreErr,
           threw, envFail, prev, vmInput, xvfb, seen>>

\* The driver process inside the sprite (sprite-process-image.ts).
VARIABLES
    dpc,         \* position of the driver's main: "off", "idle", "navigate",
                 \*   "upload", "prompt", "submit", "await", "m1", "m2", "m3", "m4",
                 \*   "finish", "finally", "linger", "exited"
    dstate,      \* "running", "Succeeded" or "Failed"
    dexit,       \* exit code of the driver process, -1 while it runs
    withRef,     \* process.argv.includes('--with-reference')
    inputDir,    \* names of the files in /tmp/input
    imagePaths,  \* the files to attach
    prompt,      \* the template chosen: "none", "with_reference", "without_reference"
    attached,    \* the files given to the file chooser
    imgCount,    \* allImages.count() taken before Method 1
    di,          \* loop variable i of the current method
    downloaded,  \* the flag `downloaded`
    outBytes,    \* size of /tmp/output/gemini_result.jpg, -1 if it does not exist
    payloads,    \* sizes of the buffers printed as BASE64_RESULT lines
    accepted,    \* history: [method, bytes] of the attempt that set `downloaded`
    dnow,        \* time since the driver armed its timer, in ticks of 30 s
    startup,     \* time from the exec call to the arming of the timer, in ticks
    dcause,      \* history: why the driver failed, "none" while it has not
    timedOut,    \* history: the timer's rejection ended the run
    dfor,        \* history: the job the driver was last started for
    dprev,       \* history: the statement the driver was at before the current one
    waited,      \* ticks spent in the polling loop
    dlast,       \* history: what the driver's last step saw and did
    browser      \* the browser context and its page: "none", "open", "closed"

dvars == <<dpc, dstate, dexit, withRef, inputDir, imagePaths, prompt, attached,
           imgCount, di, downloaded, outBytes, payloads, accepted, dnow, startup,
           dcause, timedOut, dfor, dprev, waited, dlast, browser>>

VARIABLES
    showClear,       \* prop showClear of the row
    images,          \* prop imageSet.images: kind -> the image exists (src not null)
    isLightboxOpen,  \* useState(false)
    viewMode,        \* useState('overlay'): "overlay" or "side-by-side"
    sliderPosition,  \* useState(50), in percent
    isDragging,      \* useState(false)
    leftImageIndex,  \* useState(0), 0-based as in the code
    rightImageIndex  \* useState(1)

lvars == <<showClear, images, isLightboxOpen, viewMode, sliderPosition,
           isDragging, leftImageIndex, rightImageIndex>>

vars == <<ovars, dvars, lvars>>

NoAttempt == [method |-> 0, bytes |-> -1]

NoJob == <<"none", <<>>>>

NoSeen == [cause |-> "none", flag |-> FALSE, decoded |-> -1, encoded |-> -1]

NoLast == [step |-> "none"]

\* The driver as the orchestrator's specification sees it: not modelled step by
\* step, its stdout is an input of runProcessor.
DriverOff ==
    /\ dpc = "off"
    /\ dstate = "running"
    /\ dexit = -1
    /\ withRef = FALSE
    /\ inputDir = {}
    /\ imagePaths = <<>>
    /\ prompt = "none"
    /\ attached = <<>>
    /\ imgCount = 0
    /\ di = 0
    /\ downloaded = FALSE
    /\ outBytes = -1
    /\ payloads = <<>>
    /\ accepted = NoAttempt
    /\ dnow = 0
    /\ startup = 0
    /\ dcause = "none"
    /\ timedOut = FALSE
    /\ dfor = NoJob
    /\ dprev = "off"
    /\ waited = 0
    /\ dlast = NoLast
    /\ browser = "none"

KeyOf(set) == <<set.category, set.folder>>

NoSet == [folder |-> <<>>, category |-> "none", hasReference |-> FALSE]

NoArgs == [dryRun |-> FALSE, singleSet |-> <<>>]

\* clean: the previous run had the same argv, was no dry run, ended with exit
\* code 0 and counted no job as failed.  quiet: the previous run had the same
\* argv, was no dry run and met no environment failure.
\* failedJobs: the jobs the previous run counted as failed.
NoPrev == [clean |-> FALSE, quiet |-> FALSE, failedJobs |-> {}]

\* ------------------------------------------------------------- discovery

\* HasGlare without the extension test.
HasGlareAnyExt(files) == \E f \in files : StartsWith(f, <<"glare">>)

\* part_001:193  files.some((f) => f.startsWith('glare') && f.endsWith('.jpg'))
HasGlare(files) ==
    \E f \in files : StartsWith(f, <<"glare">>) /\ EndsWith(f, <<".jpg">>)

\* part_001:194  files.some((f) => f.startsWith('gemini_result'))
HasResult(files) == \E f \in files : StartsWith(f, <<"gemini_result">>)

\* Unprocessed without the test for an existing result.
UnprocessedIgnoringResult(files) == HasGlare(files)

\* part_001:196  if (hasGlare && !hasResult)
Unprocessed(files) == HasGlare(files) /\ ~HasResult(files)

\* part_001:187  fs.readdirSync(catPath)
ReadDir(c, category) == {f \in FolderNames : c[<<category, f>>].kind # "absent"}

\* part_001:188-204  the loop over the sorted folders of one category
RECURSIVE ScanFolders(_, _, _)
ScanFolders(c, category, folders) ==
    IF folders = <<>> THEN <<>>
    ELSE LET folder == Head(folders)
             e == c[<<category, folder>>]
             rest == ScanFolders(c, category, Tail(folders))
         IN IF e.kind # "dir" THEN rest
            ELSE IF Unprocessed(e.files)
                 THEN <<[folder |-> folder, category |-> category,
                         hasReference |-> (category = "with_reference")]>> \o rest
                 ELSE rest

\* part_001:183-205  the loop over the two categories, in the literal's order
RECURSIVE ScanCategories(_, _, _)
ScanCategories(ce, c, cats) ==
    IF cats = <<>> THEN <<>>
    ELSE LET category == Head(cats)
             here == IF ~ce[category] THEN <<>>
                     ELSE ScanFolders(c, category, SortNames(ReadDir(c, category)))
         IN here \o ScanCategories(ce, c, Tail(cats))

findUnprocessedSets(ce, c) == ScanCategories(ce, c, Categories)

\* main without the --set filter.
FilterSetsKeepAll(ss, singleSet) == ss

\* part_001:325  sets.filter((s) => s.folder.includes(singleSet))
FilterSets(ss, singleSet) ==
    IF singleSet # <<>>
    THEN SelectSeq(ss, LAMBDA s : Includes(s.folder, singleSet))
    ELSE ss

\* ------------------------------------------------- driver output (stdout)

\* A line of stdout: its kind, for a payload line the number of base64
\* characters after the prefix and how many of them are '='; `of` is history,
\* the number of bytes the driver encoded.
LogLine == [kind |-> "log", chars |-> 0, pad |-> 0, of |-> -1]

\* sprite-process-image.ts:350  `BASE64_RESULT:${resultBuffer.toString('base64')}`
\* n bytes encode to 4*ceil(n/3) characters, the last (3 - n mod 3) mod 3 of them '='.
PayloadLine(n) ==
    [kind |-> "b64", chars |-> 4 * ((n + 2) \div 3), pad |-> (3 - (n % 3)) % 3,
     of |-> n]

\* part_001:297-298  Buffer.from(b64Line.replace('BASE64_RESULT:', ''), 'base64').length
DecodedLength(line) == ((line.chars * 3) \div 4) - line.pad

\* What the exec of the driver can hand back: how the child ended, and its stdout
\* (stderr is merged by 2>&1).  "ok": exit 0, which the driver reaches only after
\* printing the payload; "driverFailed": exit 1 from the driver's FAILED paths;
\* "timeout": killed by the 240 s limit of execSync; "maxBuffer": killed
\* because the output passed the 50 MB of execOpts; "bridge": the sprite CLI
\* itself failed.
ExecCauses == {"ok", "driverFailed", "timeout", "maxBuffer", "bridge"}

\* part_001:155-160  what execSync had received when it killed the child: the
\* output up to character c of the payload line, the padding and every later
\* line lost
CutAt(out, c) ==
    LET hits == {i \in 1..Len(out) : out[i].kind = "b64" /\ out[i].chars > c}
    IN IF hits = {} THEN out
       ELSE LET i == CHOOSE k \in hits : \A j \in hits : k <= j
            IN Append(SubSeq(out, 1, i - 1), [out[i] EXCEPT !.chars = c, !.pad = 0])

\* The characters of the payload line of the smallest image the orchestrator keeps.
KeptChars == PayloadLine(ORCH_MIN_BYTES).chars

StdoutsFor(cause) ==
    CASE cause = "ok" -> {<<LogLine, PayloadLine(n), LogLine>> : n \in Sizes}
      [] cause = "driverFailed" -> {<<LogLine>>}
      [] cause = "timeout" ->
            {<<LogLine>>, <<LogLine, PayloadLine(30001)>>,
             CutAt(<<LogLine, PayloadLine(30001), LogLine>>, KeptChars)}
      [] cause = "maxBuffer" ->
            {CutAt(<<LogLine, PayloadLine(MAX_BUFFER), LogLine>>, MAX_BUFFER)}
      [] cause = "bridge" -> {<<>>}

\* A sprite() that gives up the output of an exec that ended in an error.
spriteDropsOnError(res) == IF res.cause = "ok" THEN res.stdout ELSE <<>>

\* part_001:152-161  sprite(): stdout on success, e.stdout || '' on failure
sprite(res) == res.stdout

\* part_001:291  lines.find((l) => l.startsWith('BASE64_RESULT:'))
FindPayload(lines) ==
    LET hits == {i \in 1..Len(lines) : lines[i].kind = "b64"}
    IN IF hits = {} THEN 0 ELSE CHOOSE i \in hits : \A j \in hits : i <= j

\* part_001:300  the size check on the decoded buffer
TooSmall(n) == n < ORCH_MIN_BYTES

\* ExtractResult that reports success without saving the buffer.
ExtractResultNoSave(output) ==
    LET i == FindPayload(output)
    IN IF i = 0 THEN [ok |-> FALSE, bytes |-> -1]
       ELSE [ok |-> ~TooSmall(DecodedLength(output[i])), bytes |-> -1]

\* ExtractResult that saves the buffer before the size check.
ExtractResultSaveFirst(output) ==
    LET i == FindPayload(output)
    IN IF i = 0 THEN [ok |-> FALSE, bytes |-> -1]
       ELSE [ok |-> ~TooSmall(DecodedLength(output[i])),
             bytes |-> DecodedLength(output[i])]

\* part_001:281-310  the tail of processSet: [ok, bytes written or -1]
ExtractResult(output) ==
    LET i == FindPayload(output)
    IN IF i = 0 THEN [ok |-> FALSE, bytes |-> -1]
       ELSE LET n == DecodedLength(output[i])
            IN IF TooSmall(n) THEN [ok |-> FALSE, bytes |-> -1]
               ELSE [ok |-> TRUE, bytes |-> n]

\* ---------------------------------------------------------- orchestrator

\* Values of --set: none, or a substring of some folder names.
ArgFilters == {<<>>, <<1>>}

EmptyOps == [d \in DirKeys |-> {}]

\* part_001:313  before main is called: nothing discovered, counted or issued
MainNotStarted ==
    /\ args = NoArgs
    /\ mpc = "idle"
    /\ exitCode = -1
    /\ found = <<>>
    /\ sets = <<>>
    /\ idx = 0
    /\ cur = NoSet
    /\ success = 0
    /\ failed = 0
    /\ ppc = "none"
    /\ corpus0 = corpus
    /\ ops = EmptyOps
    /\ done = [d \in DirKeys |-> "none"]
    /\ writes = [d \in DirKeys |-> 0]
    /\ lastBytes = -1
    /\ seen = NoSeen
    /\ restoreErr = FALSE
    /\ threw = FALSE
    /\ envFail = FALSE
    /\ prev = NoPrev
    /\ vmInput = {}

\* part_004:245-250  the state useState gives a row on its first render
Unopened ==
    /\ isLightboxOpen = FALSE
    /\ viewMode = "overlay"
    /\ sliderPosition = 50
    /\ isDragging = FALSE
    /\ leftImageIndex = 0
    /\ rightImageIndex = 1

\* The kinds of image of an image set, in the order availableImages lists them.
ImageKinds == <<"Clear", "Glare", "Gemini", "Human">>

KindSet == {ImageKinds[i] : i \in 1..Len(ImageKinds)}

\* No comparison row is mounted.
LightboxOff ==
    /\ showClear = FALSE
    /\ images = [k \in KindSet |-> FALSE]
    /\ Unopened

Init ==
    /\ DriverOff
    /\ LightboxOff
    /\ catExists \in [CategorySet -> BOOLEAN]
    /\ corpus \in [DirKeys -> InitEntries]
    /\ Cardinality({d \in DirKeys : corpus[d].kind # "absent"}) <= MaxDirs
    /\ \A d \in DirKeys : ~catExists[d[1]] => corpus[d].kind = "absent"
    /\ xvfb = 1
    /\ MainNotStarted

\* main without the exit of --dry-run.
StopsEarlyNoDryRun(dryRun, singleSet, sel) == sel = <<>>

\* part_001:326-329, 338-341, 343-346  the three process.exit(0) before the loop:
\* --set matched nothing, --dry-run, nothing to do
StopsEarly(dryRun, singleSet, sel) ==
    \/ singleSet # <<>> /\ sel = <<>>
    \/ dryRun
    \/ sel = <<>>

\* part_001:313-349  main up to the loop: discovery, --set filter, the three early exits
Main(dryRun, singleSet) ==
    /\ mpc \in {"idle", "exited"}
    /\ LET all == findUnprocessedSets(catExists, corpus)
           sel == FilterSets(all, singleSet)
           stop == StopsEarly(dryRun, singleSet, sel)
       IN /\ found' = all
          /\ sets' = sel
          /\ mpc' = IF stop THEN "exited" ELSE "loop"
          /\ exitCode' = IF stop THEN 0 ELSE -1
    /\ args' = [dryRun |-> dryRun, singleSet |-> singleSet]
    /\ idx' = 0
    /\ cur' = NoSet
    /\ success' = 0
    /\ failed' = 0
    /\ ppc' = "none"
    /\ corpus0' = corpus
    /\ ops' = EmptyOps
    /\ done' = [d \in DirKeys |-> "none"]
    /\ writes' = [d \in DirKeys |-> 0]
    /\ lastBytes' = -1
    /\ seen' = NoSeen
    /\ restoreErr' = FALSE
    /\ threw' = FALSE
    /\ envFail' = FALSE
    /\ prev' = IF mpc = "idle" THEN NoPrev
               ELSE LET same == args = [dryRun |-> dryRun, singleSet |-> singleSet]
                    IN [clean |-> (same /\ ~args.dryRun /\ exitCode = 0 /\ failed = 0),
                        quiet |-> (same /\ ~args.dryRun /\ ~envFail),
                        failedJobs |-> {d \in DirKeys : done[d] = "failed"}]
    /\ UNCHANGED <<catExists, corpus>>
    /\ UNCHANGED vmInput
    /\ UNCHANGED xvfb
    /\ UNCHANGED <<dvars, lvars>>

\* The loop calling processSet without awaiting it.
LoopMayEnterNoAwait(p) == TRUE

\* part_001:352  `await processSet(set)`: the next iteration starts only once the
\* previous processSet has settled
LoopMayEnter(p) == p = "none"

\* part_001:351-352, 241-244  one iteration of the for loop enters processSet
BeginSet ==
    /\ mpc = "loop"
    /\ LoopMayEnter(ppc)
    /\ idx < Len(sets)
    /\ cur' = sets[idx + 1]
    /\ idx' = idx + 1
    /\ ppc' = "restore"
    /\ lastBytes' = -1
    /\ seen' = NoSeen
    /\ restoreErr' = FALSE
    /\ UNCHANGED <<catExists, corpus, args, mpc, exitCode, found, sets,
                   success, failed, corpus0, ops, done, writes, threw,
                   envFail, prev>>
    /\ UNCHANGED vmInput
    /\ UNCHANGED xvfb
    /\ UNCHANGED <<dvars, lvars>>

Issue(op) == [ops EXCEPT ![KeyOf(cur)] = @ \cup {op}]

\* part_001:210-215, 163-171  restoreCheckpoint: spriteCmd swallows the error
restoreCheckpoint(err, snap) ==
    /\ mpc = "loop"
    /\ ppc = "restore"
    /\ ops' = Issue("restore")
    /\ restoreErr' = err
    /\ vmInput' = IF err THEN vmInput ELSE {}
    /\ xvfb' = IF err THEN xvfb ELSE snap
    /\ envFail' = (envFail \/ err)
    /\ ppc' = "prepare"
    /\ UNCHANGED <<catExists, corpus, args, mpc, exitCode, found, sets, idx,
                   cur, success, failed, corpus0, done, writes, lastBytes, seen, threw,
                   prev>>
    /\ UNCHANGED <<dvars, lvars>>

\* part_001:221-225  xvfbRunning = sprite('ps aux | grep Xvfb | grep -v grep |
\* wc -l'); if (xvfbRunning === '0') sprite('Xvfb :99 ... &'): n display servers
\* run; counted: the count command gave its output (else sprite() returns '');
\* started: the Xvfb command, when issued, brought a server up
EnsureDisplay(n, counted, started) ==
    IF counted /\ n = 0 /\ started THEN 1 ELSE n

\* part_001:217-231, 152-161  prepareSprite: every sprite() call swallows its error.
\* err: one of its commands failed; cleaned: the closing `rm -f /tmp/input/*
\* /tmp/output/*` was carried out.
prepareSprite(err, cleaned, counted, started) ==
    /\ mpc = "loop"
    /\ ppc = "prepare"
    /\ ~err => cleaned /\ counted /\ started
    /\ ops' = Issue("prepare")
    /\ envFail' = (envFail \/ err)
    /\ vmInput' = IF cleaned THEN {} ELSE vmInput
    /\ xvfb' = EnsureDisplay(xvfb, counted, started)
    /\ ppc' = "upload"
    /\ UNCHANGED <<catExists, corpus, args, mpc, exitCode, found, sets, idx,
                   cur, success, failed, corpus0, done, writes, lastBytes, seen,
                   restoreErr, threw, prev>>
    /\ UNCHANGED <<dvars, lvars>>

\* part_001:264  files.find((f) => f.startsWith('clear') && f.endsWith('.jpg'))
HasClear(files) ==
    \E f \in files : StartsWith(f, <<"clear">>) /\ EndsWith(f, <<".jpg">>)

\* A command line that always carries the flag.
RefFlagAlways(set) == TRUE

\* part_001:273  refFlag = set.hasReference ? ' --with-reference' : ''
RefFlag(set) == set.hasReference

\* part_001:233-239  `cat > /tmp/input/<remoteName>`: the file of that name is
\* replaced by the current job's
Uploaded(name) ==
    {f \in vmInput : f.name # name} \cup {[name |-> name, owner |-> KeyOf(cur)]}

\* main counting a failure twice.
CountFailureTwice(ok) ==
    /\ success' = IF ok THEN success + 1 ELSE success
    /\ failed' = IF ok THEN failed ELSE failed + 2
    /\ done' = [done EXCEPT ![KeyOf(cur)] = IF ok THEN "succeeded" ELSE "failed"]

\* part_001:352-354  main counts the settled processSet
Count(ok) ==
    /\ success' = IF ok THEN success + 1 ELSE success
    /\ failed' = IF ok THEN failed ELSE failed + 1
    /\ done' = [done EXCEPT ![KeyOf(cur)] = IF ok THEN "succeeded" ELSE "failed"]

\* part_001:233-239, 361-364  uploadFile has no try/catch: execSync's exception
\* rejects processSet, then main, and main().catch exits with 1
Abort ==
    /\ threw' = TRUE
    /\ envFail' = TRUE
    /\ mpc' = "exited"
    /\ exitCode' = 1
    /\ ppc' = "none"

\* part_001:252-261  read the folder, find the glare image, upload it
uploadGlare(err) ==
    /\ mpc = "loop"
    /\ ppc = "upload"
    /\ IF ~HasGlare(corpus[KeyOf(cur)].files)
       THEN /\ Count(FALSE)
            /\ ppc' = "none"
            /\ UNCHANGED <<ops, threw, envFail, mpc, exitCode, vmInput>>
       ELSE /\ ops' = Issue("upload")
            /\ IF err
               THEN Abort /\ UNCHANGED <<success, failed, done, vmInput>>
               ELSE /\ vmInput' = Uploaded("glare.jpg")
                    /\ ppc' = IF cur.hasReference /\ HasClear(corpus[KeyOf(cur)].files)
                              THEN "uploadRef" ELSE "exec"
                    /\ UNCHANGED <<success, failed, done, threw, envFail, mpc,
                                   exitCode>>
    /\ UNCHANGED <<catExists, corpus, args, found, sets, idx, cur, corpus0,
                   writes, lastBytes, seen, restoreErr, prev>>
    /\ UNCHANGED xvfb
    /\ UNCHANGED <<dvars, lvars>>

\* part_001:263-269  upload the reference image of a with_reference set
uploadClear(err) ==
    /\ mpc = "loop"
    /\ ppc = "uploadRef"
    /\ ops' = Issue("uploadRef")
    /\ IF err
       THEN Abort /\ UNCHANGED vmInput
       ELSE /\ vmInput' = Uploaded("clear.jpg")
            /\ ppc' = "exec"
            /\ UNCHANGED <<threw, envFail, mpc, exitCode>>
    /\ UNCHANGED <<catExists, corpus, args, found, sets, idx, cur, success,
                   failed, corpus0, done, writes, lastBytes, seen, restoreErr, prev>>
    /\ UNCHANGED xvfb
    /\ UNCHANGED <<dvars, lvars>>

\* part_001:279-310, 352-354  what follows the exec of the driver: parse its
\* output, save the result, and main's count of the outcome
Settle(cause, stdout) ==
    /\ envFail' = (envFail \/ cause \in {"timeout", "maxBuffer", "bridge"})
    /\ LET out == stdout
           i == FindPayload(out)
       IN seen' = [cause |-> cause,
                   flag |-> RefFlag(cur),
                   decoded |-> IF i = 0 THEN -1 ELSE DecodedLength(out[i]),
                   encoded |-> IF i = 0 THEN -1 ELSE out[i].of]
    /\ LET r == ExtractResult(sprite([cause |-> cause, stdout |-> stdout]))
           k == KeyOf(cur)
       IN /\ IF r.bytes >= 0
             THEN /\ corpus' = [corpus EXCEPT ![k] = Folder(@.files \cup {ResultJpg})]
                  /\ writes' = [writes EXCEPT ![k] = @ + 1]
                  /\ lastBytes' = r.bytes
             ELSE UNCHANGED <<corpus, writes, lastBytes>>
          /\ Count(r.ok)
    /\ ppc' = "none"
    /\ UNCHANGED <<catExists, args, mpc, exitCode, found, sets, idx, cur,
                   corpus0, restoreErr, threw, prev>>
    /\ UNCHANGED <<vmInput, xvfb>>

\* part_001:271-310, 352-354  run the driver, parse its output, save the result,
\* and main's count of the outcome
runProcessor(cause, stdout) ==
    /\ mpc = "loop"
    /\ ppc = "exec"
    /\ ops' = Issue("exec")
    /\ Settle(cause, stdout)
    /\ UNCHANGED <<dvars, lvars>>

\* part_001:357-359  the loop is over: print the summary, main returns, exit code 0
Finish ==
    /\ mpc = "loop"
    /\ ppc = "none"
    /\ idx = Len(sets)
    /\ mpc' = "exited"
    /\ exitCode' = 0
    /\ seen' = NoSeen
    /\ UNCHANGED <<catExists, corpus, args, found, sets, idx, cur, success,
                   failed, ppc, corpus0, ops, done, writes, lastBytes, restoreErr,
                   threw, envFail, prev>>
    /\ UNCHANGED vmInput
    /\ UNCHANGED xvfb
    /\ UNCHANGED <<dvars, lvars>>

Next ==
    \/ \E dryRun \in BOOLEAN, singleSet \in ArgFilters : Main(dryRun, singleSet)
    \/ BeginSet
    \/ \E err \in BOOLEAN : restoreCheckpoint(err, 1)
    \/ \E err, cleaned, counted, started \in BOOLEAN :
          prepareSprite(err, cleaned, counted, started)
    \/ \E err \in BOOLEAN : uploadGlare(err)
    \/ \E err \in BOOLEAN : uploadClear(err)
    \/ \E cause \in ExecCauses : \E stdout \in StdoutsFor(cause) :
          runProcessor(cause, stdout)
    \/ Finish

Spec == Init /\ [][Next]_vars

\* ----------------------------------------------------------------- driver

\* The orchestrator as the driver's specification sees it: not running.
OrchestratorOff ==
    /\ catExists = [c \in CategorySet |-> FALSE]
    /\ corpus = [d \in DirKeys |-> Absent]
    /\ xvfb = 0
    /\ MainNotStarted

DriverInit ==
    /\ OrchestratorOff
    /\ LightboxOff
    /\ dpc = "idle"
    /\ dstate = "running"
    /\ dexit = -1
    /\ withRef \in BOOLEAN
    /\ inputDir \in SUBSET {"glare.jpg", "clear.jpg"}
    /\ imagePaths = <<>>
    /\ prompt = "none"
    /\ attached = <<>>
    /\ imgCount = 0
    /\ di = 0
    /\ downloaded = FALSE
    /\ outBytes = -1
    /\ payloads = <<>>
    /\ accepted = NoAttempt
    /\ dnow = 0
    /\ startup = 0
    /\ dcause = "none"
    /\ timedOut = FALSE
    /\ dfor = NoJob
    /\ dprev = "off"
    /\ waited = 0
    /\ dlast = NoLast
    /\ browser = "none"

\* Time is counted in ticks of 30 s.
Ticks(ms) == ms \div 30000

\* A timer of twice the budget.
TimerDueLate(t) == t >= Ticks(2 * PROCESS_TIMEOUT)

\* sprite-process-image.ts:71  setTimeout(..., PROCESS_TIMEOUT): the timer is due
TimerDue(t) == t >= Ticks(PROCESS_TIMEOUT)

\* part_001:276  the timeout of the exec call that runs the driver, counted from
\* the call: it is due s + t ticks after the call
ExecDue(s, t) == s + t >= Ticks(EXEC_TIMEOUT)

\* sprite-process-image.ts:355  the protocol goes on while the race is unsettled:
\* no step of it runs once the timer is due or the exec call has killed the
\* process
MayStepAfterDeadline(t, s) == ~ExecDue(s, t)
MayStep(t, s) == ~TimerDue(t) /\ ~ExecDue(s, t)

\* A driver whose process always ends with exit code 0.
ExitCodeAlwaysZero(state) == 0

\* sprite-process-image.ts:48, 358  process.exit(1) where the run has failed;
\* :366  main() returns and the process ends by itself, with exit code 0
ExitCodeOf(state) == IF state = "Failed" THEN 1 ELSE 0

\* sprite-process-image.ts:356-359  catch: print FAILED, process.exit(1)
\* (and :47-48 for the missing input); process.exit ends the process at once,
\* the finally block does not run
Fail(cause) ==
    /\ dstate' = "Failed"
    /\ dexit' = ExitCodeOf("Failed")
    /\ dpc' = "exited"
    /\ dprev' = dpc
    /\ dcause' = cause

\* A selection that takes the template from the flag alone.
SelectInputsByFlag(ref, dir) ==
    [imagePaths |-> IF ref /\ "clear.jpg" \in dir
                    THEN <<"glare.jpg", "clear.jpg">> ELSE <<"glare.jpg">>,
     prompt |-> IF ref THEN "with_reference" ELSE "without_reference"]

\* sprite-process-image.ts:51-65  the upload list and the prompt template
SelectInputs(ref, dir) ==
    IF ref /\ "clear.jpg" \in dir
    THEN [imagePaths |-> <<"glare.jpg", "clear.jpg">>, prompt |-> "with_reference"]
    ELSE [imagePaths |-> <<"glare.jpg">>, prompt |-> "without_reference"]

\* A protocol that goes from the page straight to the prompt.
NextPhaseSkipsUpload(pc) ==
    CASE pc = "idle" -> "navigate"
      [] pc = "navigate" -> "prompt"
      [] pc = "upload" -> "prompt"
      [] pc = "prompt" -> "submit"
      [] pc = "submit" -> "await"
      [] OTHER -> pc

\* sprite-process-image.ts:74-156  the statements of the protocol in program
\* order: the start (35-72), launch and navigation (77-103), the upload
\* (105-126), the prompt (128-142), the submission (144-156), the wait (158-192)
NextPhase(pc) ==
    CASE pc = "idle" -> "navigate"
      [] pc = "navigate" -> "upload"
      [] pc = "upload" -> "prompt"
      [] pc = "prompt" -> "submit"
      [] pc = "submit" -> "await"
      [] OTHER -> pc

\* The protocol moves on to its next statement.
Advance ==
    /\ dpc' = NextPhase(dpc)
    /\ dprev' = dpc
    /\ UNCHANGED <<dstate, dexit, dcause>>

\* sprite-process-image.ts:35-72  argv, the input check, the mode, the timer
dStart ==
    /\ dpc = "idle"
    /\ IF "glare.jpg" \notin inputDir
       THEN Fail("noInput") /\ UNCHANGED <<imagePaths, prompt>>
       ELSE /\ imagePaths' = SelectInputs(withRef, inputDir).imagePaths
            /\ prompt' = SelectInputs(withRef, inputDir).prompt
            /\ Advance
    /\ dlast' = NoLast
    /\ UNCHANGED <<withRef, inputDir, attached, imgCount, di, downloaded, outBytes,
                   payloads, accepted>>
    /\ UNCHANGED browser
    /\ UNCHANGED <<dnow, startup, timedOut, dfor, waited>>
    /\ UNCHANGED <<ovars, lvars>>

\* What the launch and the navigation meet: launchPersistentContext throws, or
\* the context is there and newPage or goto throws, or the page is loaded.
NavigateOutcomes == {"launchThrows", "gotoThrows", "ok"}

\* sprite-process-image.ts:77-103  launch the browser, open the page, go to the app
dNavigate(out) ==
    /\ dpc = "navigate"
    /\ MayStep(dnow, startup)
    /\ IF out = "ok" THEN Advance ELSE Fail("navigate")
    /\ browser' = IF out = "launchThrows" THEN browser ELSE "open"
    /\ dlast' = NoLast
    /\ UNCHANGED <<withRef, inputDir, imagePaths, prompt, attached, imgCount, di,
                   downloaded, outBytes, payloads, accepted>>
    /\ UNCHANGED <<dnow, startup, timedOut, dfor, waited>>
    /\ UNCHANGED <<ovars, lvars>>

UploadOutcomes == {"noButton", "noMenuItem", "throws", "chosen"}

\* sprite-process-image.ts:105-126  open the upload menu and set the files
dUpload(u) ==
    /\ dpc = "upload"
    /\ MayStep(dnow, startup)
    /\ IF u = "throws"
       THEN Fail("upload") /\ UNCHANGED attached
       ELSE /\ attached' = IF u = "chosen" THEN imagePaths ELSE attached
            /\ Advance
    /\ dlast' = NoLast
    /\ UNCHANGED <<withRef, inputDir, imagePaths, prompt, imgCount, di, downloaded,
                   outBytes, payloads, accepted>>
    /\ UNCHANGED browser
    /\ UNCHANGED <<dnow, startup, timedOut, dfor, waited>>
    /\ UNCHANGED <<ovars, lvars>>

\* An input area that is taken as found whatever isVisible says.
PromptFoundAlways(visible) == TRUE

\* sprite-process-image.ts:134  if (await inputArea.isVisible({ timeout: 5000 }))
PromptFound(visible) == visible

\* sprite-process-image.ts:128-142  type the prompt, or throw 'Input area not found'
dPrompt(visible) ==
    /\ dpc = "prompt"
    /\ MayStep(dnow, startup)
    /\ IF PromptFound(visible) THEN Advance ELSE Fail("prompt")
    /\ dlast' = [step |-> "prompt", visible |-> visible]
    /\ UNCHANGED <<withRef, inputDir, imagePaths, prompt, attached, imgCount, di,
                   downloaded, outBytes, payloads, accepted>>
    /\ UNCHANGED browser
    /\ UNCHANGED <<dnow, startup, timedOut, dfor, waited>>
    /\ UNCHANGED <<ovars, lvars>>

\* What the submission meets: the send button shows and is clicked; it does not
\* show and Enter is pressed; it does not show and pressing Enter throws.
SubmitOutcomes ==
    {[sendBtn |-> TRUE, enter |-> "unused"], [sendBtn |-> FALSE, enter |-> "pressed"],
     [sendBtn |-> FALSE, enter |-> "throws"]}

\* A submission that gives up when the send button does not show.
SubmittedNeedsButton(how) == how.sendBtn

\* sprite-process-image.ts:147-153  try { waitFor; click } catch { press('Enter') }:
\* the prompt is submitted by the click or by the key press
Submitted(how) == how.sendBtn \/ how.enter = "pressed"

\* sprite-process-image.ts:144-156  send button, or Enter on the input area
dSubmit(how) ==
    /\ dpc = "submit"
    /\ MayStep(dnow, startup)
    /\ IF Submitted(how) THEN Advance ELSE Fail("submit")
    /\ dlast' = [step |-> "submit", sendBtn |-> how.sendBtn, enter |-> how.enter]
    /\ waited' = 0
    /\ UNCHANGED <<withRef, inputDir, imagePaths, prompt, attached, imgCount, di,
                   downloaded, outBytes, payloads, accepted>>
    /\ UNCHANGED browser
    /\ UNCHANGED <<dnow, startup, timedOut, dfor>>
    /\ UNCHANGED <<ovars, lvars>>

\* What one look at the page gives in the polling loop.
PollOutcomes ==
    [isGenerating : BOOLEAN, newImages : -1..1, responseImages : 0..1,
     inputReady : BOOLEAN]

\* A loop that breaks without looking at the input area.
SettledWithoutInput(obs) ==
    ~obs.isGenerating /\ (obs.newImages > 0 \/ obs.responseImages > 0)

\* sprite-process-image.ts:184  if (!isGenerating && (newImages > 0 ||
\* responseImages > 0) && inputReady)
Settled(obs) ==
    ~obs.isGenerating /\ (obs.newImages > 0 \/ obs.responseImages > 0)
        /\ obs.inputReady

\* A loop without a ceiling.
CeilingReachedNever(w) == FALSE

\* sprite-process-image.ts:164, 166  while (Date.now() - startTime < responseTimeout)
\* is false: w ticks after startTime the 90 s are over
CeilingReached(w) == w >= Ticks(RESPONSE_TIMEOUT)

\* sprite-process-image.ts:166-192  one iteration of the polling loop: look at the
\* page; break when the response has settled, else wait and look again
dPoll(obs) ==
    /\ dpc = "await"
    /\ MayStep(dnow, startup)
    /\ ~CeilingReached(waited)
    /\ IF Settled(obs)
       THEN /\ dpc' = "settled"
            /\ dprev' = dpc
            /\ dlast' = [step |-> "poll", obs |-> obs]
       ELSE UNCHANGED <<dpc, dprev, dlast>>
    /\ UNCHANGED <<dstate, dexit, dcause, withRef, inputDir, imagePaths, prompt, attached,
                   imgCount, di, downloaded, outBytes, payloads, accepted>>
    /\ UNCHANGED browser
    /\ UNCHANGED <<dnow, startup, timedOut, dfor, waited>>
    /\ UNCHANGED <<ovars, lvars>>

\* A chain that tries every strategy and every candidate.
MayAttemptAlways(got) == TRUE

\* sprite-process-image.ts:201, 233, 256, 257, 298, 299  !downloaded: a strategy,
\* and a candidate of it, is tried only while no image has been taken
MayAttempt(got) == ~got

\* sprite-process-image.ts:166, 194-199  the loop is left (settled, or the ceiling
\* reached); the img elements are counted for the extraction loops
dAwait(n) ==
    /\ \/ dpc = "settled"
       \/ dpc = "await" /\ CeilingReached(waited)
    /\ MayStep(dnow, startup)
    /\ imgCount' = n
    /\ di' = n - 1
    /\ dpc' = IF n > 0 THEN "m1" ELSE "m2"
    /\ dprev' = dpc
    /\ dlast' = NoLast
    /\ waited' = 0
    /\ UNCHANGED <<dstate, dexit, dcause, withRef, inputDir, imagePaths, prompt, attached,
                   downloaded, outBytes, payloads, accepted>>
    /\ UNCHANGED browser
    /\ UNCHANGED <<dnow, startup, timedOut, dfor>>
    /\ UNCHANGED <<ovars, lvars>>

NoBox == [width |-> -1, height |-> -1]

BoxDims == {MIN_BOX - 1, MIN_BOX, MIN_BOX + 1}

Boxes == {NoBox} \cup [width : BoxDims, height : BoxDims]

\* A test that lets every candidate through.
BoxOkAny(box) == TRUE

\* sprite-process-image.ts:204  if (!box || box.width < 150 || box.height < 150) continue
BoxOk(box) == box # NoBox /\ ~(box.width < MIN_BOX \/ box.height < MIN_BOX)

\* The smaller side of a bounding box.
MinDim(box) == IF box.width < box.height THEN box.width ELSE box.height

\* sprite-process-image.ts:203-206, 259-260, 301-302  what a per-candidate
\* strategy does with one image: skipped by the box test, or acted on
Candidate(box) ==
    [step |-> "candidate", idx |-> di, acted |-> BoxOk(box),
     dim |-> IF BoxOk(box) THEN MinDim(box) ELSE -1]

\* What a click on a download control gives: no control, no download event in
\* time, a download without a path, or a file of some size.
DownloadOutcomes ==
    {[kind |-> k, bytes |-> -1] : k \in {"noButton", "timeout", "noPath"}}
        \cup {[kind |-> "file", bytes |-> n] : n \in Sizes}

\* sprite-process-image.ts:219  if (dlPath): a downloaded file is taken whatever its size
AcceptDownload(n) == TRUE

\* sprite-process-image.ts:286-288, 321-323  if (data) { ... if (buffer.length > 30000)
AcceptBuffer(n) == n > 0 /\ n > DRIVER_MIN_BYTES

Take(m, n) ==
    /\ outBytes' = n
    /\ downloaded' = TRUE
    /\ accepted' = [method |-> m, bytes |-> n]

\* sprite-process-image.ts:201-230  Method 1, one candidate image: hover, click the
\* download control, copy the downloaded file
dHoverDownload(box, dl) ==
    /\ dpc = "m1"
    /\ MayStep(dnow, startup)
    /\ di >= 0
    /\ MayAttempt(downloaded)
    /\ IF BoxOk(box) /\ dl.kind = "file" /\ AcceptDownload(dl.bytes)
       THEN Take(1, dl.bytes)
       ELSE UNCHANGED <<outBytes, downloaded, accepted>>
    /\ di' = di - 1
    /\ dpc' = IF di' >= 0 /\ MayAttempt(downloaded') THEN "m1"
              ELSE IF MayAttempt(downloaded') THEN "m2" ELSE "finish"
    /\ dprev' = IF dpc' # dpc THEN dpc ELSE dprev
    /\ dlast' = Candidate(box)
    /\ UNCHANGED <<dstate, dexit, dcause, withRef, inputDir, imagePaths, prompt, attached,
                   imgCount, payloads>>
    /\ UNCHANGED browser
    /\ UNCHANGED <<dnow, startup, timedOut, dfor, waited>>
    /\ UNCHANGED <<ovars, lvars>>

\* sprite-process-image.ts:232-253  Method 2: the page-level download button
dButtonDownload(dl) ==
    /\ dpc = "m2"
    /\ MayStep(dnow, startup)
    /\ MayAttempt(downloaded)
    /\ IF dl.kind = "file" /\ AcceptDownload(dl.bytes)
       THEN Take(2, dl.bytes)
       ELSE UNCHANGED <<outBytes, downloaded, accepted>>
    /\ di' = imgCount - 1
    /\ dpc' = IF MayAttempt(downloaded') /\ imgCount > 0 THEN "m3" ELSE "finish"
    /\ dprev' = dpc
    /\ dlast' = NoLast
    /\ UNCHANGED <<dstate, dexit, dcause, withRef, inputDir, imagePaths, prompt, attached,
                   imgCount, payloads>>
    /\ UNCHANGED browser
    /\ UNCHANGED <<dnow, startup, timedOut, dfor, waited>>
    /\ UNCHANGED <<ovars, lvars>>

\* What page.evaluate returns in Methods 3 and 4: null, or base64 text of n bytes.
EvalOutcomes ==
    {[kind |-> "null", bytes |-> -1]} \cup {[kind |-> "data", bytes |-> n] : n \in Sizes}

\* sprite-process-image.ts:255-295  Method 3, one candidate image: fetch its src
dFetchSrc(box, data) ==
    /\ dpc = "m3"
    /\ MayStep(dnow, startup)
    /\ di >= 0
    /\ MayAttempt(downloaded)
    /\ IF BoxOk(box) /\ data.kind = "data" /\ AcceptBuffer(data.bytes)
       THEN Take(3, data.bytes)
       ELSE UNCHANGED <<outBytes, downloaded, accepted>>
    /\ dpc' = IF di - 1 >= 0 /\ MayAttempt(downloaded') THEN "m3"
              ELSE IF MayAttempt(downloaded') THEN "m4" ELSE "finish"
    /\ di' = IF dpc' = "m4" THEN imgCount - 1 ELSE di - 1
    /\ dprev' = IF dpc' # dpc THEN dpc ELSE dprev
    /\ dlast' = Candidate(box)
    /\ UNCHANGED <<dstate, dexit, dcause, withRef, inputDir, imagePaths, prompt, attached,
                   imgCount, payloads>>
    /\ UNCHANGED browser
    /\ UNCHANGED <<dnow, startup, timedOut, dfor, waited>>
    /\ UNCHANGED <<ovars, lvars>>

\* sprite-process-image.ts:297-330  Method 4, one candidate image: draw it on a canvas
dCanvas(box, data) ==
    /\ dpc = "m4"
    /\ MayStep(dnow, startup)
    /\ di >= 0
    /\ MayAttempt(downloaded)
    /\ IF BoxOk(box) /\ data.kind = "data" /\ AcceptBuffer(data.bytes)
       THEN Take(4, data.bytes)
       ELSE UNCHANGED <<outBytes, downloaded, accepted>>
    /\ di' = di - 1
    /\ dpc' = IF di' >= 0 /\ MayAttempt(downloaded') THEN "m4" ELSE "finish"
    /\ dprev' = IF dpc' # dpc THEN dpc ELSE dprev
    /\ dlast' = Candidate(box)
    /\ UNCHANGED <<dstate, dexit, dcause, withRef, inputDir, imagePaths, prompt, attached,
                   imgCount, payloads>>
    /\ UNCHANGED browser
    /\ UNCHANGED <<dnow, startup, timedOut, dfor, waited>>
    /\ UNCHANGED <<ovars, lvars>>

\* What GeminiWatermarkTool does to the output file: it fails (the file stays),
\* or it rewrites the file with some size.
WatermarkOutcomes ==
    {[kind |-> "skipped", bytes |-> -1]}
        \cup {[kind |-> "rewritten", bytes |-> n] : n \in Sizes}

\* A watermark step whose failure leaves the protocol.
WatermarkThrowsOnFailure(wm) == wm.kind = "skipped"

\* sprite-process-image.ts:338-346  try { execSync(GeminiWatermarkTool ...) } catch
\* { console.log('Watermark removal skipped') }: nothing is thrown on
WatermarkThrows(wm) == FALSE

\* A driver that prints the payload line twice.
EmitTwice(ps, n) == Append(Append(ps, n), n)

\* sprite-process-image.ts:348-350  read the output file and print one
\* BASE64_RESULT: line with its content
Emit(ps, n) == Append(ps, n)

\* sprite-process-image.ts:332-352  no image: throw; else remove the watermark,
\* read the output file, print the payload line and SUCCESS; the protocol's
\* promise resolves and the race is won
dFinish(wm) ==
    /\ dpc = "finish"
    /\ MayStep(dnow, startup)
    /\ IF ~downloaded
       THEN Fail("exhausted") /\ dlast' = NoLast /\ UNCHANGED <<outBytes, payloads>>
       ELSE /\ dlast' = [step |-> "watermark", kind |-> wm.kind]
            /\ IF WatermarkThrows(wm)
               THEN Fail("watermark") /\ UNCHANGED <<outBytes, payloads>>
               ELSE /\ outBytes' = IF wm.kind = "rewritten" THEN wm.bytes ELSE outBytes
                    /\ payloads' = Emit(payloads, outBytes')
                    /\ dstate' = "Succeeded"
                    /\ dpc' = "finally"
                    /\ dprev' = dpc
                    /\ UNCHANGED <<dexit, dcause>>
    /\ UNCHANGED <<withRef, inputDir, imagePaths, prompt, attached, imgCount, di,
                   downloaded, accepted>>
    /\ UNCHANGED browser
    /\ UNCHANGED <<dnow, startup, timedOut, dfor, waited>>
    /\ UNCHANGED <<ovars, lvars>>

\* sprite-process-image.ts:360-363  finally, after the race was won: close the
\* page and the context; the locals of the protocol's closure are gone, the
\* output file and what was printed stay
dFinally ==
    /\ dpc = "finally"
    /\ ~ExecDue(startup, dnow)
    /\ browser' = "closed"
    /\ dpc' = "linger"
    /\ dprev' = dpc
    /\ attached' = <<>>
    /\ imgCount' = 0
    /\ di' = 0
    /\ downloaded' = FALSE
    /\ accepted' = NoAttempt
    /\ dlast' = NoLast
    /\ UNCHANGED <<dstate, dexit, dcause, withRef, inputDir, imagePaths, prompt,
                   outBytes, payloads>>
    /\ UNCHANGED <<dnow, startup, timedOut, dfor, waited>>
    /\ UNCHANGED <<ovars, lvars>>

\* sprite-process-image.ts:70-72, 366  main has returned, but the timer of line
\* 71 was never cleared and keeps the process alive; when it fires (its
\* rejection goes to the race that is already settled) nothing is pending and
\* the process ends by itself
dExit ==
    /\ dpc = "linger"
    /\ TimerDue(dnow)
    /\ dpc' = "exited"
    /\ dprev' = dpc
    /\ dexit' = ExitCodeOf(dstate)
    /\ UNCHANGED <<dstate, dcause, withRef, inputDir, imagePaths, prompt, attached,
                   imgCount, di, downloaded, outBytes, payloads, accepted, dlast>>
    /\ UNCHANGED browser
    /\ UNCHANGED <<dnow, startup, timedOut, dfor, waited>>
    /\ UNCHANGED <<ovars, lvars>>

\* A timer whose rejection ends the run even after the protocol has resolved.
TimerCanRejectAfterSuccess(pc) == pc \notin {"off", "idle", "exited"}

\* sprite-process-image.ts:355  Promise.race settles once: the timer's rejection
\* reaches the catch only while the protocol's promise is still pending
TimerCanReject(pc) == pc \notin {"off", "idle", "exited", "finally", "linger"}

\* sprite-process-image.ts:70-72, 354-359  the 3 minute timer rejects the race
\* while the protocol is still pending
dTimeout ==
    /\ TimerCanReject(dpc)
    /\ TimerDue(dnow)
    /\ Fail("timeout")
    /\ timedOut' = TRUE
    /\ dlast' = NoLast
    /\ UNCHANGED <<withRef, inputDir, imagePaths, prompt, attached, imgCount, di,
                   downloaded, outBytes, payloads, accepted>>
    /\ UNCHANGED browser
    /\ UNCHANGED <<dnow, startup, dfor, waited>>
    /\ UNCHANGED <<ovars, lvars>>

\* A step of Method 1, 3 or 4 can also throw out of the protocol (hover, evaluate).
dThrow ==
    /\ dpc \in {"m1", "m3", "m4"}
    /\ MayStep(dnow, startup)
    /\ Fail("throw")
    /\ dlast' = NoLast
    /\ UNCHANGED <<withRef, inputDir, imagePaths, prompt, attached, imgCount, di,
                   downloaded, outBytes, payloads, accepted>>
    /\ UNCHANGED browser
    /\ UNCHANGED <<dnow, startup, timedOut, dfor, waited>>
    /\ UNCHANGED <<ovars, lvars>>

\* Time passes while the driver runs, up to the moment a timer is due; in the
\* polling loop it passes up to the ceiling, where the loop is left.
dTick ==
    /\ dpc \notin {"off", "idle", "exited"}
    /\ ~TimerDue(dnow)
    /\ ~ExecDue(startup, dnow)
    /\ dpc = "await" => ~CeilingReached(waited)
    /\ dnow' = dnow + 1
    /\ waited' = IF dpc = "await" THEN waited + 1 ELSE waited
    /\ UNCHANGED <<dpc, dprev, dlast, browser, dstate, dexit, withRef, inputDir, imagePaths,
                   prompt, attached, imgCount, di, downloaded, outBytes, payloads,
                   accepted, startup, dcause, timedOut, dfor>>
    /\ UNCHANGED <<ovars, lvars>>

DriverNext ==
    \/ dStart
    \/ \E out \in NavigateOutcomes : dNavigate(out)
    \/ \E u \in UploadOutcomes : dUpload(u)
    \/ \E visible \in BOOLEAN : dPrompt(visible)
    \/ \E how \in SubmitOutcomes : dSubmit(how)
    \/ \E obs \in PollOutcomes : dPoll(obs)
    \/ \E n \in 0..MaxImages : dAwait(n)
    \/ \E box \in Boxes, dl \in DownloadOutcomes : dHoverDownload(box, dl)
    \/ \E dl \in DownloadOutcomes : dButtonDownload(dl)
    \/ \E box \in Boxes, data \in EvalOutcomes : dFetchSrc(box, data)
    \/ \E box \in Boxes, data \in EvalOutcomes : dCanvas(box, data)
    \/ \E wm \in WatermarkOutcomes : dFinish(wm)
    \/ dFinally
    \/ dExit
    \/ dTimeout
    \/ dThrow
    \/ dTick

DriverSpec == DriverInit /\ [][DriverNext]_vars

\* --------------------------------------- orchestrator and driver together

\* Folders the joint specification starts with: unprocessed jobs with and
\* without a reference image, all in the category with_reference, so that the
\* driver is started with --with-reference.
PipelineEntries == {Absent, Folder({GlareJpg}), Folder({GlareJpg, ClearJpg})}

PipelineInit ==
    /\ DriverOff
    /\ LightboxOff
    /\ catExists = [c \in CategorySet |-> TRUE]
    /\ corpus \in [DirKeys -> PipelineEntries]
    /\ \A d \in DirKeys : d[1] = "without_reference" => corpus[d] = Absent
    /\ \E d \in DirKeys : corpus[d] # Absent
    /\ xvfb = 1
    /\ MainNotStarted

\* sprite-process-image.ts:35-39  the locals of a driver process that is not
\* running
NoLocals ==
    /\ inputDir' = {}
    /\ imagePaths' = <<>>
    /\ attached' = <<>>
    /\ imgCount' = 0
    /\ di' = 0
    /\ downloaded' = FALSE
    /\ outBytes' = -1
    /\ payloads' = <<>>
    /\ accepted' = NoAttempt
    /\ dnow' = 0
    /\ startup' = 0
    /\ dprev' = "off"
    /\ waited' = 0
    /\ dlast' = NoLast
    /\ browser' = "none"

\* part_001:271-277  the exec call starts the driver in the sprite, with
\* --with-reference for a with_reference set; the driver sees the sprite's
\* /tmp/input, and arms its timer s ticks later
invokeDriver(s) ==
    /\ mpc = "loop"
    /\ ppc = "exec"
    /\ ops' = Issue("exec")
    /\ ppc' = "driver"
    /\ dpc' = "idle"
    /\ dstate' = "running"
    /\ dexit' = -1
    /\ withRef' = RefFlag(cur)
    /\ inputDir' = {f.name : f \in vmInput}
    /\ imagePaths' = <<>>
    /\ prompt' = "none"
    /\ attached' = <<>>
    /\ imgCount' = 0
    /\ di' = 0
    /\ downloaded' = FALSE
    /\ outBytes' = -1
    /\ payloads' = <<>>
    /\ accepted' = NoAttempt
    /\ dnow' = 0
    /\ startup' = s
    /\ dcause' = "none"
    /\ timedOut' = FALSE
    /\ dfor' = KeyOf(cur)
    /\ dprev' = "off"
    /\ waited' = 0
    /\ dlast' = NoLast
    /\ browser' = "none"
    /\ UNCHANGED <<catExists, corpus, args, mpc, exitCode, found, sets, idx, cur,
                   success, failed, corpus0, done, writes, lastBytes, seen, restoreErr,
                   threw, envFail, prev, vmInput, xvfb>>
    /\ UNCHANGED lvars

\* sprite-process-image.ts:93, 350-351, 358  what the driver has printed: log
\* lines, the payload line(s), and SUCCESS after a payload
DriverStdout ==
    <<LogLine>> \o [i \in 1..Len(payloads) |-> PayloadLine(payloads[i])]
        \o (IF dstate = "Succeeded" THEN <<LogLine>> ELSE <<>>)

\* part_001:152-161, 279-310  the driver process has exited: execSync returns its
\* stdout (exit 0) or throws with e.stdout (exit 1); processSet parses it
collectDriver ==
    /\ mpc = "loop"
    /\ ppc = "driver"
    /\ dpc = "exited"
    /\ Settle(IF dexit = 0 THEN "ok" ELSE "driverFailed", DriverStdout)
    /\ dpc' = "off"
    /\ NoLocals
    /\ UNCHANGED ops
    /\ UNCHANGED <<dstate, dexit, withRef, prompt, dcause, timedOut, dfor>>
    /\ UNCHANGED lvars

\* part_001:149, 155, 276  the 240 s timeout of execSync kills the exec while the
\* driver is still running; sprite() returns what was printed so far
execTimeout ==
    /\ mpc = "loop"
    /\ ppc = "driver"
    /\ dpc # "exited"
    /\ ExecDue(startup, dnow)
    /\ Settle("timeout", DriverStdout)
    /\ dpc' = "off"
    /\ dcause' = "killed"
    /\ NoLocals
    /\ UNCHANGED ops
    /\ UNCHANGED <<dstate, dexit, withRef, prompt, timedOut, dfor>>
    /\ UNCHANGED lvars

\* One run of the orchestrator, without --dry-run and without --set.
PipelineMain ==
    /\ mpc = "idle"
    /\ Main(FALSE, <<>>)

PipelineNext ==
    \/ PipelineMain
    \/ BeginSet
    \/ \E err \in BOOLEAN : restoreCheckpoint(err, 1)
    \/ \E err, cleaned, counted, started \in BOOLEAN :
          prepareSprite(err, cleaned, counted, started)
    \/ \E err \in BOOLEAN : uploadGlare(err)
    \/ \E err \in BOOLEAN : uploadClear(err)
    \/ \E stdout \in StdoutsFor("bridge") : runProcessor("bridge", stdout)
    \/ \E s \in 0..MaxStartup : invokeDriver(s)
    \/ DriverNext
    \/ collectDriver
    \/ execTimeout
    \/ Finish

PipelineSpec == PipelineInit /\ [][PipelineNext]_vars

\* ------------------------------------- orchestrator and sprite environment

\* How many display servers run in the sprite right after checkpoint v3 was
\* restored; the code does not rely on either.
SnapshotDisplays == 0..1

\* One run of the orchestrator against a sprite whose checkpoint may lack the
\* display server (Spec and PipelineSpec take a checkpoint that holds one).
SpriteInit ==
    /\ DriverOff
    /\ LightboxOff
    /\ catExists = [c \in CategorySet |-> TRUE]
    /\ corpus \in [DirKeys -> PipelineEntries]
    /\ Cardinality({d \in DirKeys : corpus[d].kind # "absent"}) \in 1..MaxDirs
    /\ xvfb \in SnapshotDisplays
    /\ MainNotStarted

SpriteNext ==
    \/ PipelineMain
    \/ BeginSet
    \/ \E err \in BOOLEAN, snap \in SnapshotDisplays : restoreCheckpoint(err, snap)
    \/ \E err, cleaned, counted, started \in BOOLEAN :
          prepareSprite(err, cleaned, counted, started)
    \/ \E err \in BOOLEAN : uploadGlare(err)
    \/ \E err \in BOOLEAN : uploadClear(err)
    \/ \E cause \in {"ok", "driverFailed"} :
          \E stdout \in StdoutsFor(cause) : runProcessor(cause, stdout)
    \/ Finish

SpriteSpec == SpriteInit /\ [][SpriteNext]_vars

\* --------------------------------------------------------------- lightbox

\* part_004:254-266  availableImages: the labels of the images that exist, a
\* label written as the word findIndex looks for in it
RECURSIVE Available(_, _, _)
Available(sc, imgs, kinds) ==
    IF kinds = <<>> THEN <<>>
    ELSE LET k == Head(kinds)
             here == IF k = "Clear" THEN sc /\ imgs[k] ELSE imgs[k]
         IN (IF here THEN <<k>> ELSE <<>>) \o Available(sc, imgs, Tail(kinds))

availableImages == Available(showClear, images, ImageKinds)

\* Array.prototype.findIndex: the 0-based index of the first match, -1 if none
FindIndex(list, k) ==
    LET hits == {i \in 1..Len(list) : list[i] = k}
    IN IF hits = {} THEN -1 ELSE (CHOOSE i \in hits : \A j \in hits : i <= j) - 1

Min(a, b) == IF a < b THEN a ELSE b
Max(a, b) == IF a > b THEN a ELSE b

\* part_004:270-283  the pair openLightbox selects
DefaultPair(list) ==
    LET glareIdx == FindIndex(list, "Glare")
        geminiIdx == FindIndex(list, "Gemini")
        humanIdx == FindIndex(list, "Human")
    IN IF glareIdx >= 0 /\ geminiIdx >= 0
       THEN [left |-> glareIdx, right |-> geminiIdx]
       ELSE IF geminiIdx >= 0 /\ humanIdx >= 0
            THEN [left |-> geminiIdx, right |-> humanIdx]
            ELSE [left |-> 0, right |-> Min(1, Len(list) - 1)]

\* part_004:329-344, 357-364  gridSlots: some slot has a src, so that an image
\* with onClick={openLightbox} is on the page
SlotClickable ==
    LET hasClearImage == showClear /\ images["Clear"]
    IN \/ hasClearImage
       \/ images["Glare"] \/ images["Gemini"] \/ images["Human"]

\* part_004:373  {isLightboxOpen && availableImages.length >= 2 && (<div modal>
ModalRendered == isLightboxOpen /\ Len(availableImages) >= 2

\* part_004:404, 426-433  the branch of viewMode that holds the overlay
\* container, the selectors and overlayRef
OverlayRendered == ModalRendered /\ viewMode = "overlay"

\* A position taken from the pointer as it is.
PercentageUnclamped(x, width) == (x * 100) \div width

\* part_004:303, 320  Math.max(0, Math.min(100, (x / rect.width) * 100)),
\* in whole percent
Percentage(x, width) == Max(0, Min(100, (x * 100) \div width))

\* part_004:268-286, 363  openLightbox, the onClick of every image of the grid
openLightbox ==
    /\ SlotClickable
    /\ leftImageIndex' = DefaultPair(availableImages).left
    /\ rightImageIndex' = DefaultPair(availableImages).right
    /\ sliderPosition' = 50
    /\ isLightboxOpen' = TRUE
    /\ UNCHANGED <<showClear, images, viewMode, isDragging>>
    /\ UNCHANGED <<ovars, dvars>>

\* part_004:288-291, 376  closeLightbox, the onClick of the modal
closeLightbox ==
    /\ ModalRendered
    /\ isLightboxOpen' = FALSE
    /\ isDragging' = FALSE
    /\ UNCHANGED <<showClear, images, viewMode, sliderPosition, leftImageIndex,
                   rightImageIndex>>
    /\ UNCHANGED <<ovars, dvars>>

\* part_004:389, 398  the two buttons of the mode toggle
setViewMode(mode) ==
    /\ ModalRendered
    /\ viewMode' = mode
    /\ UNCHANGED <<showClear, images, isLightboxOpen, sliderPosition, isDragging,
                   leftImageIndex, rightImageIndex>>
    /\ UNCHANGED <<ovars, dvars>>

\* part_004:482-490  a button of the left selector: availableImages.map((img,
\* idx) => ... onClick={() => setLeftImageIndex(idx)})
setLeftImageIndex(i) ==
    /\ OverlayRendered
    /\ i \in 0..(Len(availableImages) - 1)
    /\ leftImageIndex' = i
    /\ UNCHANGED <<showClear, images, isLightboxOpen, viewMode, sliderPosition,
                   isDragging, rightImageIndex>>
    /\ UNCHANGED <<ovars, dvars>>

\* part_004:500-508  a button of the right selector
setRightImageIndex(i) ==
    /\ OverlayRendered
    /\ i \in 0..(Len(availableImages) - 1)
    /\ rightImageIndex' = i
    /\ UNCHANGED <<showClear, images, isLightboxOpen, viewMode, sliderPosition,
                   isDragging, leftImageIndex>>
    /\ UNCHANGED <<ovars, dvars>>

\* part_004:293-297, 431  handleSliderMouseDown, on the overlay container
handleSliderMouseDown ==
    /\ OverlayRendered
    /\ isDragging' = TRUE
    /\ UNCHANGED <<showClear, images, isLightboxOpen, viewMode, sliderPosition,
                   leftImageIndex, rightImageIndex>>
    /\ UNCHANGED <<ovars, dvars>>

\* part_004:311-314, 432  handleTouchStart, on the overlay container
handleTouchStart ==
    /\ OverlayRendered
    /\ isDragging' = TRUE
    /\ UNCHANGED <<showClear, images, isLightboxOpen, viewMode, sliderPosition,
                   leftImageIndex, rightImageIndex>>
    /\ UNCHANGED <<ovars, dvars>>

\* part_004:300-304, 317-321  if (!isDragging || !overlayRef.current) return;
\* else the slider follows the pointer.  overlayRef.current is the overlay
\* container while it is rendered.
FollowPointer(x, width) ==
    /\ sliderPosition' = IF ~isDragging \/ ~OverlayRendered THEN sliderPosition
                         ELSE Percentage(x, width)
    /\ UNCHANGED <<showClear, images, isLightboxOpen, viewMode, isDragging,
                   leftImageIndex, rightImageIndex>>
    /\ UNCHANGED <<ovars, dvars>>

\* part_004:299-305, 377  handleMouseMove, on the modal
handleMouseMove(x, width) == ModalRendered /\ FollowPointer(x, width)

\* part_004:316-322, 380  handleTouchMove, on the modal
handleTouchMove(x, width) == ModalRendered /\ FollowPointer(x, width)

\* part_004:307-309, 378-379  handleMouseUp, the modal's onMouseUp and onMouseLeave
handleMouseUp ==
    /\ ModalRendered
    /\ isDragging' = FALSE
    /\ UNCHANGED <<showClear, images, isLightboxOpen, viewMode, sliderPosition,
                   leftImageIndex, rightImageIndex>>
    /\ UNCHANGED <<ovars, dvars>>

\* part_004:324-326, 381  handleTouchEnd, on the modal
handleTouchEnd ==
    /\ ModalRendered
    /\ isDragging' = FALSE
    /\ UNCHANGED <<showClear, images, isLightboxOpen, viewMode, sliderPosition,
                   leftImageIndex, rightImageIndex>>
    /\ UNCHANGED <<ovars, dvars>>

\* A row mounted with any props: any of the four images may be missing.
LightboxInit ==
    /\ OrchestratorOff
    /\ DriverOff
    /\ showClear \in BOOLEAN
    /\ images \in [KindSet -> BOOLEAN]
    /\ Unopened

ViewModes == {"side-by-side", "overlay"}

LightboxNext ==
    \/ openLightbox
    \/ closeLightbox
    \/ \E mode \in ViewModes : setViewMode(mode)
    \/ \E i \in 0..(Len(ImageKinds) - 1) : setLeftImageIndex(i)
    \/ \E i \in 0..(Len(ImageKinds) - 1) : setRightImageIndex(i)
    \/ handleSliderMouseDown
    \/ handleTouchStart
    \/ \E x \in (-1)..(MaxWidth + 1), width \in 1..MaxWidth : handleMouseMove(x, width)
    \/ \E x \in (-1)..(MaxWidth + 1), width \in 1..MaxWidth : handleTouchMove(x, width)
    \/ handleMouseUp
    \/ handleTouchEnd

LightboxSpec == LightboxInit /\ [][LightboxNext]_vars

\* ------------------------------------------------ orchestrator properties

InSeq(d, ss) == \E i \in 1..Len(ss) : KeyOf(ss[i]) = d

GlarePrefixed(f) == f[1] = "glare"
JpgSuffixed(f) == f[Len(f)] = ".jpg"
ResultPrefixed(f) == f[1] = "gemini_result"

\* C1 as stated: a corpus directory is discovered iff it holds a glare-prefixed
\* image file and no result artifact.
C1_GlarePrefixIff ==
    mpc # "idle" =>
        \A d \in DirKeys :
            InSeq(d, found) <=>
                /\ corpus0[d].kind = "dir"
                /\ \E f \in corpus0[d].files : GlarePrefixed(f)
                /\ ~\E f \in corpus0[d].files : ResultPrefixed(f)

\* C1 amended: a corpus directory is discovered iff it holds a file whose name
\* starts with "glare" and ends with ".jpg" and no file whose name starts with
\* "gemini_result"; so a directory without a glare-prefixed file, and a directory
\* with a result file, is never discovered, in either category.
C1_Discovery ==
    mpc # "idle" =>
        \A d \in DirKeys :
            InSeq(d, found) <=>
                /\ corpus0[d].kind = "dir"
                /\ \E f \in corpus0[d].files : GlarePrefixed(f) /\ JpgSuffixed(f)
                /\ ~\E f \in corpus0[d].files : ResultPrefixed(f)

C1_Witness ==
    /\ mpc # "idle"
    /\ \E d, e \in DirKeys :
          /\ InSeq(d, found)
          /\ ~InSeq(e, found)
          /\ corpus0[e].kind = "dir"
          /\ ~\E f \in corpus0[e].files : GlarePrefixed(f)

NothingDone ==
    /\ sets = <<>>
    /\ ops = EmptyOps
    /\ \A d \in DirKeys : writes[d] = 0
    /\ corpus = corpus0

\* C2 as stated: a run that follows a run with the same arguments in which no
\* environment failure happened finds no job, issues no remote operation and
\* leaves the output files as they were.
C2_AfterQuietRun == prev.quiet => NothingDone

\* C2 amended: a run that follows a full run (no dry run, exit code 0) with the
\* same arguments in which every job was counted as succeeded has no job to
\* process (none is discovered when no --set filter is given), issues no remote
\* operation and leaves the output files as they were.
C2_Idempotent ==
    prev.clean => (NothingDone /\ (args.singleSet = <<>> => found = <<>>))

\* The second run of C2, after a first run that produced a result file.
C2_Witness ==
    /\ prev.clean
    /\ mpc = "exited"
    /\ \E d \in DirKeys : corpus[d].files = {GlareJpg, ClearJpg, ResultJpg}

\* C3: a job folder that holds a result file when the run starts gets no restore,
\* no upload and no driver invocation in the run, and its files stay as they were.
C3_ResultUntouched ==
    \A d \in DirKeys :
        (\E f \in corpus0[d].files : ResultPrefixed(f)) =>
            /\ ops[d] = {}
            /\ writes[d] = 0
            /\ corpus[d] = corpus0[d]

C3_Witness ==
    /\ mpc = "exited"
    /\ \E d, e \in DirKeys :
          /\ \E f \in corpus0[d].files : ResultPrefixed(f)
          /\ \E f \in corpus0[d].files : GlarePrefixed(f) /\ JpgSuffixed(f)
          /\ "exec" \in ops[e]

\* C4: at most one job is active against the remote environment: whenever two
\* jobs have had a remote operation in the run, one of them has already been
\* counted as succeeded or failed.
C4_Exclusive ==
    \A d, e \in DirKeys :
        (d # e /\ ops[d] # {} /\ ops[e] # {}) =>
            (done[d] # "none" \/ done[e] # "none")

\* The second job of a run is being restored after the first one was counted.
C4_Witness ==
    /\ ppc = "prepare"
    /\ \E d \in DirKeys : d # KeyOf(cur) /\ done[d] # "none" /\ "exec" \in ops[d]

\* C5 as stated: a run that is no dry run ends only after every job of its list
\* was counted as succeeded or failed.
C5_EveryJobCounted ==
    (mpc = "exited" /\ ~args.dryRun) =>
        /\ success + failed = Len(sets)
        /\ \A i \in 1..Len(sets) : done[KeyOf(sets[i])] # "none"

\* C6 as stated: a job whose restore command errored is not counted as succeeded
\* and gets no output file.
C6_RestoreErrorFailsJob ==
    (restoreErr /\ cur # NoSet) =>
        (done[KeyOf(cur)] # "succeeded" /\ writes[KeyOf(cur)] = 0)

\* C7 as stated: no failure of a controller command reaches the caller as an
\* exception.
C7_NoException == ~threw

\* C9 as stated: every buffer the orchestrator writes is larger than 30,000 bytes.
C9_WrittenAboveThreshold == lastBytes = -1 \/ lastBytes > 30000

\* C10: in a run a job folder gets an output file iff the job is counted as
\* succeeded; a job counted as failed leaves its folder unchanged, and the next
\* run discovers it again.
C10_WriteIffSucceeded ==
    /\ \A d \in DirKeys :
          /\ writes[d] > 0 <=> done[d] = "succeeded"
          /\ done[d] = "failed" => corpus[d] = corpus0[d]
    /\ \A d \in prev.failedJobs : InSeq(d, found)

\* A run after one that failed a job, itself with one job saved and one failed.
C10_Witness ==
    /\ prev.failedJobs # {}
    /\ \E d, e \in DirKeys :
          /\ done[d] = "succeeded"
          /\ ResultJpg \in corpus[d].files
          /\ done[e] = "failed"

\* C15 as stated: whenever the orchestrator process has exited after a complete
\* discovery (in this model discovery always completes), its exit code is 0,
\* however the jobs of the run ended.
C15_ExitZeroAfterDiscovery ==
    mpc = "exited" => exitCode = 0

\* C16: in a run with --dry-run, whatever the corpus and the --set value, the
\* orchestrator exits with code 0 right after discovery: no restore, prepare,
\* upload or driver invocation is issued for any folder, no file is written,
\* the corpus is as it was, and no job is entered or counted.
C16_DryRunDoesNothing ==
    args.dryRun =>
        /\ mpc = "exited"
        /\ exitCode = 0
        /\ \A d \in DirKeys : ops[d] = {} /\ writes[d] = 0
        /\ corpus = corpus0
        /\ idx = 0 /\ ppc = "none"
        /\ success = 0 /\ failed = 0

\* A dry run with a --set value that found jobs to report.
C16_Witness ==
    /\ args.dryRun
    /\ args.singleSet # <<>>
    /\ sets # <<>>
    /\ mpc = "exited"

\* The folder name holds the substring somewhere.
ContainsAt(name, sub, k) ==
    /\ k + Len(sub) - 1 <= Len(name)
    /\ \A i \in 1..Len(sub) : name[k + i - 1] = sub[i]

Contains(name, sub) == \E k \in 1..Len(name) : ContainsAt(name, sub, k)

\* C17: in a run with --set <substring>, the jobs main selects are exactly the
\* discovered jobs whose folder name contains the substring; only selected jobs
\* are ever restored, prepared, uploaded or invoked; when the run ends normally
\* every selected job has been processed; and when no job matches, nothing is
\* processed and the exit code is 0.
C17_SetFilter ==
    (mpc # "idle" /\ args.singleSet # <<>>) =>
        /\ \A d \in DirKeys :
              InSeq(d, sets) <=> (InSeq(d, found) /\ Contains(d[2], args.singleSet))
        /\ \A d \in DirKeys :
              (ops[d] # {} \/ done[d] # "none" \/ writes[d] > 0) =>
                  Contains(d[2], args.singleSet)
        /\ (mpc = "exited" /\ exitCode = 0 /\ ~args.dryRun) =>
              \A d \in DirKeys : InSeq(d, sets) => done[d] # "none"
        /\ sets = <<>> =>
              /\ mpc = "exited" /\ exitCode = 0
              /\ \A d \in DirKeys : ops[d] = {} /\ writes[d] = 0

\* A filtered run ended normally: it processed a matching job and left a
\* discovered job that does not match untouched.
C17_Witness ==
    /\ args.singleSet # <<>>
    /\ mpc = "exited" /\ exitCode = 0 /\ ~args.dryRun
    /\ \E d, e \in DirKeys :
          /\ InSeq(d, sets) /\ done[d] = "succeeded"
          /\ InSeq(e, found) /\ ~InSeq(e, sets) /\ ops[e] = {}

\* C18 as stated: every job main has entered and left is counted as succeeded
\* or as failed, and the two counters add up to the number of jobs entered.
C18_EveryAttemptCounted ==
    ppc = "none" =>
        /\ success + failed = idx
        /\ \A d \in DirKeys : ops[d] # {} => done[d] \in {"succeeded", "failed"}

PosIn(d, ss) == CHOOSE i \in 1..Len(ss) : KeyOf(ss[i]) = d

\* C19 as stated: of two discovered jobs, the one with the lexically smaller
\* folder name comes first, whichever category each belongs to.
C19_LexicalAcrossCategories ==
    \A i, j \in 1..Len(found) :
        LexLess(found[i].folder, found[j].folder) => i < j

\* C19 amended: the discovered sequence is deterministic: the with_reference
\* jobs come first, then the without_reference jobs, and within a category the
\* jobs are in lexical order of their folder names; the --set filter keeps
\* that order, and the jobs are processed in it.
C19_CategoryThenLexical ==
    /\ \A i, j \in 1..Len(found) :
          i < j =>
              \/ /\ found[i].category = "with_reference"
                 /\ found[j].category = "without_reference"
              \/ /\ found[i].category = found[j].category
                 /\ LexLess(found[i].folder, found[j].folder)
    /\ \A i, j \in 1..Len(sets) :
          i < j =>
              /\ PosIn(KeyOf(sets[i]), found) < PosIn(KeyOf(sets[j]), found)
              /\ ops[KeyOf(sets[j])] # {} => done[KeyOf(sets[i])] # "none"

\* Two jobs of different categories were both processed, the one with the
\* lexically larger folder name first.
C19_Witness ==
    /\ Len(sets) = 2
    /\ sets[1].category # sets[2].category
    /\ LexLess(sets[2].folder, sets[1].folder)
    /\ done[KeyOf(sets[1])] # "none"
    /\ done[KeyOf(sets[2])] # "none"

\* C20 as stated: whenever the driver is about to be invoked for a job, the
\* restore issued for that job succeeded, and every file in the sprite's input
\* directory was uploaded for that job.
C20_NoSharedState ==
    (mpc = "loop" /\ ppc = "exec") =>
        /\ ~restoreErr
        /\ \A f \in vmInput : f.owner = KeyOf(cur)

\* C32 as stated: once prepareSprite has completed, a display server runs in the
\* sprite and its input directory is empty; and a prepareSprite that finds a
\* display server running leaves their number as it was.
C32_PrepareIdempotent ==
    /\ []((mpc = "loop" /\ ppc = "upload") => xvfb = 1 /\ vmInput = {})
    /\ [][(ppc = "prepare" /\ ppc' = "upload" /\ xvfb >= 1) => xvfb' = xvfb]_vars

\* C33: a settled exec of the driver counts as succeeded exactly when the stdout
\* it captured holds a payload line whose decoded length is not below the size
\* check, whichever way the exec ended (exit 0, exit 1, timeout, output limit,
\* failure of the CLI).
C33_SuccessIffPayloadPasses ==
    seen.cause # "none" =>
        (done[KeyOf(cur)] = "succeeded"
            <=> seen.decoded >= ORCH_MIN_BYTES)

\* A job is counted as succeeded although its exec was cut off.
C33_Witness ==
    /\ seen.cause \in {"timeout", "maxBuffer"}
    /\ done[KeyOf(cur)] = "succeeded"
    /\ success >= 1

\* C34 as stated: for every job counted as succeeded, the number of bytes written
\* to gemini_result.jpg is the number of bytes the driver read from its output
\* path and encoded, also when the exec was ended by its timeout or by the
\* limit on its output.
C34_WrittenIsEncoded ==
    (seen.cause # "none" /\ done[KeyOf(cur)] = "succeeded") =>
        lastBytes = seen.encoded

\* C38: the driver is run with --with-reference exactly for the jobs of category
\* with_reference; a reference image is uploaded only for a with_reference
\* job whose folder holds a clear*.jpg, never for a without_reference job; and
\* when the reference is uploaded or the driver is run, the job's glare image
\* has been uploaded before.
C38_ReferenceFollowsCategory ==
    /\ seen.cause # "none" => (seen.flag <=> cur.category = "with_reference")
    /\ \A k \in DirKeys :
          /\ "uploadRef" \in ops[k] =>
                k[1] = "with_reference" /\ HasClear(corpus[k].files)
          /\ k[1] = "without_reference" => "uploadRef" \notin ops[k]
          /\ ("uploadRef" \in ops[k] \/ "exec" \in ops[k]) => "upload" \in ops[k]
    /\ (mpc = "loop" /\ ppc \in {"uploadRef", "exec"}) =>
          [name |-> "glare.jpg", owner |-> KeyOf(cur)] \in vmInput

\* The driver has been run without the flag for a without_reference job whose
\* folder holds a clear.jpg, after a with_reference job got its reference uploaded.
C38_Witness ==
    /\ seen.cause # "none"
    /\ cur.category = "without_reference"
    /\ HasClear(corpus[KeyOf(cur)].files)
    /\ ~seen.flag
    /\ ops[KeyOf(cur)] = {"restore", "prepare", "upload", "exec"}
    /\ \E k \in DirKeys : "uploadRef" \in ops[k]

\* ------------------------------------------------------- driver properties

\* C8 as stated: whichever of the four strategies sets `downloaded`, the file or
\* buffer it took is larger than 30,000 bytes.
C8_ThresholdEveryStrategy == accepted.method # 0 => accepted.bytes > 30000

\* C13: once the 3 minute budget has expired while the protocol is pending
\* (navigating, uploading, prompting, submitting, awaiting or extracting), the
\* run is never a success and prints no payload; the timer's rejection leaves
\* the driver Failed and exited with code 1.
C13_TimeoutPreempts ==
    /\ [][dnow * 30000 >= 180000 =>
            /\ dstate' = "Succeeded" => dstate = "Succeeded"
            /\ payloads' = payloads]_vars
    /\ [](timedOut =>
            /\ dstate = "Failed"
            /\ dexit = 1
            /\ dpc = "exited"
            /\ payloads = <<>>)

\* The timer fired when an image had already been downloaded and only the
\* emission was left.
C13_Witness ==
    /\ timedOut
    /\ downloaded
    /\ accepted.method = 1

\* The phases of the protocol, numbered in the order of the specification: Idle,
\* Navigating, Uploading, Prompting, Submitting, AwaitingResponse, Extracting,
\* terminal.
Rank(pc) ==
    CASE pc = "idle" -> 0
      [] pc = "navigate" -> 1
      [] pc = "upload" -> 2
      [] pc = "prompt" -> 3
      [] pc = "submit" -> 4
      [] pc \in {"await", "settled"} -> 5
      [] pc \in {"m1", "m2", "m3", "m4", "finish"} -> 6
      [] pc \in {"finally", "linger", "exited"} -> 7
      [] OTHER -> -1

\* The driver came to where it is from the same phase or the one before it, or
\* it has ended; it has ended in exactly one of Succeeded and Failed.
PhasesInOrder ==
    /\ dpc \notin {"off", "idle"} =>
          /\ Rank(dprev) >= 0
          /\ dpc # "exited" => Rank(dpc) \in {Rank(dprev), Rank(dprev) + 1}
    /\ dpc \in {"finally", "linger", "exited"} <=> dstate \in {"Succeeded", "Failed"}
    /\ dpc \in {"finally", "linger"} => dstate = "Succeeded"

\* Succeeded is entered from the end of the extraction, with an accepted buffer.
SucceededFromExtracting ==
    /\ dstate = "Succeeded" => payloads # <<>>
    /\ dpc = "finally" => dprev = "finish" /\ downloaded /\ accepted # NoAttempt
    /\ dpc = "linger" => dprev = "finally"
    /\ dpc = "exited" /\ dstate = "Succeeded" => dprev = "linger"

\* C21 as stated: the driver moves through its phases in the fixed order and
\* ends in one terminal state; Succeeded is entered only from Extracting with an
\* accepted buffer; Failed is entered only on a missing input, a prompt surface
\* that is not found, the exhaustion of the extraction, or the timeout.
C21_FailedOnlyOnFourCauses ==
    /\ PhasesInOrder
    /\ SucceededFromExtracting
    /\ dstate = "Failed" => dcause \in {"noInput", "prompt", "exhausted", "timeout"}

\* C21 amended: the order and the entry to Succeeded are as stated; Failed is
\* also entered when the launch or the navigation throws, when the file chooser
\* does not come, when the Enter key press of the submission throws, and when a
\* hover, fetch or canvas step of the extraction throws.
C21_PhasesInOrder ==
    /\ PhasesInOrder
    /\ SucceededFromExtracting
    /\ dstate = "Failed" =>
          dcause \in {"noInput", "prompt", "exhausted", "timeout",
                      "navigate", "upload", "submit", "throw"}
    /\ dstate = "Failed" /\ dcause = "noInput" => dprev = "idle"
    /\ dstate = "Failed" /\ dcause = "prompt" => dprev = "prompt"
    /\ dstate = "Failed" /\ dcause = "exhausted" => dprev = "finish" /\ ~downloaded

\* The navigation failed and the driver ended in Failed from Navigating.
C21_Witness == dstate = "Failed" /\ dcause = "navigate" /\ dprev = "navigate"

\* C22: whenever the driver is at the prompt or at the submission, or has
\* submitted, the upload has attached the input files: the glare image alone, or
\* the glare image and then the reference image when the reference mode is
\* asked for and the reference file is there; no prompt goes out without an image.
C22_InputsAttached ==
    Rank(dpc) \in 3..6 =>
        /\ attached = SelectInputs(withRef, inputDir).imagePaths
        /\ Len(attached) \in 1..2
        /\ attached[1] = "glare.jpg"
        /\ Len(attached) = 2 => withRef /\ attached[2] = "clear.jpg"

\* C23: when the prompt surface is not found, the driver ends in Failed with the
\* message of that failure and exit code 1, and it has neither submitted nor
\* tried any extraction strategy.
C23_NoPromptSurfaceFails ==
    dlast = [step |-> "prompt", visible |-> FALSE] =>
        /\ dstate = "Failed"
        /\ dcause = "prompt"
        /\ dexit = 1
        /\ dpc = "exited"
        /\ dprev = "prompt"
        /\ imgCount = 0
        /\ ~downloaded
        /\ accepted = NoAttempt
        /\ payloads = <<>>

\* The input area was not visible after the files had been attached.
C23_Witness ==
    /\ dlast = [step |-> "prompt", visible |-> FALSE]
    /\ attached # <<>>
    /\ dstate = "Failed"

\* C24 as stated: the submission clicks the send button when it shows and
\* otherwise presses Enter on the input area; every run that reaches the
\* submission submits the prompt and goes on to wait for the response.
C24_AlwaysSubmitted ==
    /\ dlast.step = "submit" => dlast.sendBtn \/ dlast.enter = "pressed"
    /\ dprev = "submit" => dpc = "await"

\* C24 amended: the click is used when the send button shows, the Enter key
\* otherwise, and with either the driver goes on to wait for the response; a
\* run ends in Failed at the submission only when the timer fires there or the
\* key press itself throws, never because the send button alone is missing.
C24_SubmitFallsBack ==
    /\ dlast.step = "submit" /\ dlast.sendBtn =>
          dlast.enter = "unused" /\ dpc = "await" /\ dprev = "submit"
    /\ dlast.step = "submit" /\ ~dlast.sendBtn /\ dlast.enter = "pressed" =>
          dpc = "await" /\ dprev = "submit"
    /\ dprev = "submit" => dpc \in {"await", "exited"}
    /\ dprev = "submit" /\ dpc = "exited" =>
          /\ dstate = "Failed"
          /\ dcause \in {"timeout", "submit"}
    /\ dcause = "submit" =>
          dlast = [step |-> "submit", sendBtn |-> FALSE, enter |-> "throws"]

\* The send button did not show, Enter was pressed, and the driver waits for the
\* response.
C24_Witness ==
    /\ dpc = "await"
    /\ dlast = [step |-> "submit", sendBtn |-> FALSE, enter |-> "pressed"]

FairDriverSpec == DriverSpec /\ WF_vars(DriverNext)

C27_FirstSuccessWins ==
    /\ [](/\ dpc \in {"m1", "m2", "m3", "m4"} => ~downloaded /\ accepted = NoAttempt
          /\ dpc = "m1" => dprev \in {"await", "settled"}
          /\ dpc = "m2" => dprev \in {"m1", "await", "settled"}
          /\ dpc = "m2" /\ dprev # "m1" => imgCount = 0
          /\ dpc = "m3" => dprev = "m2"
          /\ dpc = "m4" => dprev = "m3"
          /\ downloaded => accepted.method \in 1..4
          /\ downloaded /\ dpc = "finish" =>
                dprev = <<"m1", "m2", "m3", "m4">>[accepted.method]
                    /\ outBytes = accepted.bytes)
    /\ [][downloaded /\ dpc # "finally" =>
            /\ downloaded' /\ accepted' = accepted
            /\ dpc' \in {"finish", "finally", "exited"}]_vars

\* The fetch took an image when the two download strategies had failed, and a
\* candidate of the fetch was left unvisited.
C27_Witness == accepted.method = 3 /\ dpc = "finish" /\ di >= 0

\* C28 as stated: the hover, the fetch and the canvas strategy act only on an
\* image whose bounding box exceeds 150 by 150; an image that is 150 or less
\* wide or high, or has no box, is never acted on.
C28_OnlyAbove150 ==
    dlast.step = "candidate" /\ dlast.acted => dlast.dim > MIN_BOX

\* C28 amended: the three strategies act on an image exactly when it has a
\* bounding box that is at least 150 wide and at least 150 high; an image with a
\* side below 150, or without a box, is skipped and nothing is taken from it;
\* the candidates are visited from the last image of the page to the first.
C28_AtLeast150MostRecentFirst ==
    /\ dlast.step = "candidate" =>
          /\ dlast.acted <=> dlast.dim >= MIN_BOX
          /\ ~dlast.acted => dlast.dim = -1
          /\ ~dlast.acted => ~downloaded
          /\ dlast.idx \in 0..(imgCount - 1)
    /\ dpc \in {"m1", "m3", "m4"} =>
          /\ di \in 0..(imgCount - 1)
          /\ \/ di = imgCount - 1
             \/ dlast.step = "candidate" /\ di = dlast.idx - 1

\* A strategy acted on an image that is exactly 150 on its smaller side.
C28_Witness == dlast.step = "candidate" /\ dlast.acted /\ dlast.dim = MIN_BOX

\* C29: after an image has been taken, a failure of the watermark tool is
\* swallowed: the driver ends in Succeeded with exit code 0 and prints the
\* content the output file has after the watermark step, which is the image as
\* it was taken when the tool failed.
C29_WatermarkFailureSwallowed ==
    dlast.step = "watermark" =>
        /\ dstate = "Succeeded"
        /\ dexit # 1
        /\ dpc = "finally"
        /\ dcause = "none"
        /\ payloads = <<outBytes>>
        /\ dlast.kind = "skipped" => outBytes = accepted.bytes

\* The watermark tool failed after the canvas strategy had taken an image.
C29_Witness ==
    /\ dlast = [step |-> "watermark", kind |-> "skipped"]
    /\ accepted.method = 4
    /\ dstate = "Succeeded"

\* C31: the driver's process ends with exit code 1 on every run that ends in
\* Failed (missing input, prompt surface not found, extraction exhausted,
\* timeout, or any other error thrown in the protocol), and with exit code 0
\* only after it has reached Succeeded.
C31_ExitCodeFollowsOutcome ==
    /\ dstate = "Failed" => dexit = 1 /\ dpc = "exited" /\ dcause # "none"
    /\ dexit = 1 => dstate = "Failed"
    /\ dexit = 0 => dstate = "Succeeded" /\ payloads # <<>> /\ dpc = "exited"
    /\ dpc = "exited" => dexit \in {0, 1}
    /\ dpc \notin {"off", "exited"} => dexit = -1

\* A step of the extraction threw and the process ended with exit code 1.
C31_Witness == dstate = "Failed" /\ dcause = "throw" /\ dexit = 1

\* C35: on every path on which the driver's process ends after the browser was
\* launched (Succeeded, Failed by an error, Failed by the timeout), the page and
\* the context have been closed before the process ends.
C35_ClosedBeforeExit ==
    dpc = "exited" /\ browser # "none" => browser = "closed"

C37_TemplateMatchesUploadList ==
    (dpc \notin {"off", "idle"} /\ dcause # "noInput") =>
        /\ prompt \in {"with_reference", "without_reference"}
        /\ prompt = "with_reference" <=> (withRef /\ "clear.jpg" \in inputDir)
        /\ prompt = "with_reference" <=> imagePaths = <<"glare.jpg", "clear.jpg">>
        /\ prompt = "without_reference" <=> imagePaths = <<"glare.jpg">>

\* The flag was given but the reference file is missing: the no-reference
\* template and the glare image alone.
C37_Witness ==
    /\ dpc = "upload"
    /\ withRef
    /\ "clear.jpg" \notin inputDir
    /\ prompt = "without_reference"
    /\ imagePaths = <<"glare.jpg">>

\* ---------------------------------------------------- pipeline properties

FailedJobs == {d \in DirKeys : done[d] = "failed"}

C12_DegradedEndToEnd ==
    /\ ppc = "driver" => withRef = cur.hasReference /\ dfor = KeyOf(cur)
    /\ ( /\ dpc \notin {"off", "idle"}
         /\ withRef
         /\ "glare.jpg" \in inputDir
         /\ "clear.jpg" \notin inputDir ) =>
            /\ prompt = "without_reference"
            /\ imagePaths = <<"glare.jpg">>
            /\ attached \in {<<>>, <<"glare.jpg">>}
            /\ dcause # "noInput"
    /\ ( /\ ppc = "driver"
         /\ dpc # "idle"
         /\ cur.hasReference
         /\ ~\E f \in corpus[KeyOf(cur)].files : f[1] = "clear" ) =>
            /\ prompt = "without_reference"
            /\ imagePaths = <<"glare.jpg">>

C30_PayloadAtMostOnce ==
    /\ Len(payloads) <= 1
    /\ payloads # <<>> => dstate = "Succeeded" /\ dexit # 1
    /\ dstate = "Failed" => payloads = <<>>
    /\ \A d \in DirKeys :
          /\ writes[d] <= 1
          /\ writes[d] = 1 =>
                /\ done[d] = "succeeded"
                /\ ResultJpg \in corpus[d].files
                /\ KeyOf(cur) = d => ppc = "none"
                /\ dfor = d => dstate = "Succeeded"

\* The driver succeeded for a job and the orchestrator has written its output.
C30_Witness ==
    \E d \in DirKeys :
        /\ writes[d] = 1
        /\ dfor = d
        /\ dstate = "Succeeded"
        /\ ppc = "none"

\* --------------------------------------------------- lightbox properties

\* C39: whenever the lightbox is rendered (open, with two or more available
\* images) leftImageIndex and rightImageIndex are indices of availableImages;
\* sliderPosition is always within 0..100; and isDragging is never true while
\* the lightbox is closed.
C39_LightboxStateValid ==
    /\ ModalRendered =>
          /\ leftImageIndex \in 0..(Len(availableImages) - 1)
          /\ rightImageIndex \in 0..(Len(availableImages) - 1)
    /\ sliderPosition \in 0..100
    /\ ~isLightboxOpen => ~isDragging

\* The overlay of a row with four images, the last one selected on the left,
\* while the slider is dragged to the right edge.
C39_Witness ==
    /\ OverlayRendered
    /\ Len(availableImages) = 4
    /\ leftImageIndex = 3
    /\ rightImageIndex = 0
    /\ isDragging
    /\ sliderPosition = 100

====
